---------------------------- MODULE Spec2Model ----------------------------
(***************************************************************************)
(* Model of mcp-weather-bq/server.py: four tools over the NOAA GSOD        *)
(* station directory and daily observation tables.                         *)
(*                                                                         *)
(* Representation.                                                         *)
(*   - A FLOAT is an exact rational <<n, d>> in lowest terms with d > 0;   *)
(*     SQL NULL and Python None are both the empty tuple NULL.             *)
(*   - A text used by name matching (city, station name) is a sequence of  *)
(*     one-character strings, so that UPPER, LIKE and ORDER BY can be      *)
(*     computed as the dataset computes them.                              *)
(*   - An ISO date text "YYYY-MM-DD" is the pair <<year, day of year>>; a  *)
(*     DATE value is the ordinal of the day counted from the first year.   *)
(*   - Optional[str] is a set of at most one string (None is {}).          *)
(*   - Every tool invocation is split at its blocking dataset calls:       *)
(*     entry, query submission, reading the rows, return.                  *)
(***************************************************************************)
EXTENDS Integers, Sequences, FiniteSets, TLC

VARIABLES
    stations,   \* the station directory table (a set of rows)
    obs,        \* the daily observation tables gsod* (a set of rows)
    pc,         \* pc[i]: position of invocation i
    args,       \* args[i]: tool and arguments of invocation i
    queries,    \* queries[i]: number of bq_client.query calls made by i
    job,        \* job[i]: the rows the submitted query will deliver
    series,     \* series[i]: the list daily_weather_series has built so far
    response    \* response[i]: the object returned to the caller

vars == <<stations, obs, pc, args, queries, job, series, response>>

-----------------------------------------------------------------------------
(* Every field name of the rows, arguments and returned objects.  TLC keeps *)
(* the fields of a record in the order in which their names first appear in *)
(* the module; every record of the model is written in this order.          *)
FieldOrder ==
    [tool |-> 1, found |-> 2, reason |-> 3, stn |-> 4, wban |-> 5,
     name |-> 6, country |-> 7, lat |-> 8, lon |-> 9, city |-> 10,
     country_code |-> 11, start_date |-> 12, end_date |-> 13, year |-> 14,
     date |-> 15, temp |-> 16, max |-> 17, min |-> 18, prcp |-> 19,
     wdsp |-> 20, asked |-> 21, metrics |-> 22, data |-> 23,
     temperature |-> 24, rainfall |-> 25, wind |-> 26, min_c |-> 27,
     max_c |-> 28, mean_c |-> 29, total_mm |-> 30, mean_kmh |-> 31,
     temp_min_f |-> 32, temp_max_f |-> 33, temp_mean_f |-> 34,
     prcp_sum_in |-> 35, wind_mean_knots |-> 36, max_temp_f |-> 37,
     pending |-> 38]

-----------------------------------------------------------------------------
(* Bounds of the model *)

DaysPerYear == 3
NumCalls == 2
MaxStations == 3

Calls == 1..NumCalls

-----------------------------------------------------------------------------
(* Exact arithmetic on FLOAT values *)

NULL == <<>>

Abs(n) == IF n < 0 THEN -n ELSE n

RECURSIVE GCD(_, _)
GCD(a, b) == IF b = 0 THEN a ELSE GCD(b, a % b)

Rat(n, d) == LET g == GCD(Abs(n), d) IN <<n \div g, d \div g>>

Num(k) == <<k, 1>>

RatAdd(a, b) == Rat(a[1] * b[2] + b[1] * a[2], a[2] * b[2])
RatSub(a, b) == Rat(a[1] * b[2] - b[1] * a[2], a[2] * b[2])
RatMul(a, b) == Rat(a[1] * b[1], a[2] * b[2])
RatDiv(a, b) == IF b[1] < 0 THEN Rat(-(a[1] * b[2]), -(a[2] * b[1]))
                            ELSE Rat(a[1] * b[2], a[2] * b[1])
RatLt(a, b) == a[1] * b[2] < b[1] * a[2]
RatLeq(a, b) == a[1] * b[2] <= b[1] * a[2]

(* The literals of the source *)
TempSentinel == Rat(99999, 10)      \* 9999.9
PrcpSentinel == Rat(9999, 100)      \* 99.99
WindSentinel == Rat(9999, 10)       \* 999.9

-----------------------------------------------------------------------------
(* Unit conversion *)

f_to_c(v) == IF v = NULL THEN NULL
             ELSE RatDiv(RatMul(RatSub(v, Num(32)), Num(5)), Num(9))

inches_to_mm(v) == IF v = NULL THEN NULL ELSE RatMul(v, Rat(254, 10))

knots_to_kmh(v) == IF v = NULL THEN NULL ELSE RatMul(v, Rat(1852, 1000))

-----------------------------------------------------------------------------
(* Texts: UPPER, LIKE and the ordering of ORDER BY *)

Alphabet == {"%", "_", "D", "E", "L", "N", "O", "R", "Y", "d", "l", "n", "o"}

(* The code point of a character *)
Code(c) ==
    CASE c = "%" -> 37 [] c = "_" -> 95
      [] c = "D" -> 68 [] c = "E" -> 69 [] c = "L" -> 76 [] c = "N" -> 78
      [] c = "O" -> 79 [] c = "R" -> 82 [] c = "Y" -> 89
      [] c = "d" -> 100 [] c = "l" -> 108 [] c = "n" -> 110 [] c = "o" -> 111

UpperChar(c) == IF Code(c) >= 97 /\ Code(c) <= 122
                THEN CHOOSE u \in Alphabet : Code(u) = Code(c) - 32
                ELSE c

Upper(s) == [k \in 1..Len(s) |-> UpperChar(s[k])]

(* s LIKE p, with % matching any text and _ any one character *)
RECURSIVE Like(_, _)
Like(s, p) ==
    IF p = <<>> THEN s = <<>>
    ELSE IF Head(p) = "%"
         THEN Like(s, Tail(p)) \/ (s # <<>> /\ Like(Tail(s), p))
    ELSE IF s = <<>> THEN FALSE
    ELSE (Head(p) = "_" \/ Head(p) = Head(s)) /\ Like(Tail(s), Tail(p))

(* a <= b in code point order *)
RECURSIVE TextLeq(_, _)
TextLeq(a, b) ==
    IF a = <<>> THEN TRUE
    ELSE IF b = <<>> THEN FALSE
    ELSE IF Code(Head(a)) # Code(Head(b)) THEN Code(Head(a)) < Code(Head(b))
    ELSE TextLeq(Tail(a), Tail(b))

-----------------------------------------------------------------------------
(* Dates *)

Years == {2020, 2021, 2022}

IsDate(s) == s[1] \in Years /\ s[2] \in 1..DaysPerYear

ParseDate(s) == (s[1] - 2020) * DaysPerYear + s[2]

ExtractYear(d) == 2020 + ((d - 1) \div DaysPerYear)

DateStr(d) == <<ExtractYear(d), ((d - 1) % DaysPerYear) + 1>>

-----------------------------------------------------------------------------
(* SQL and Python comparisons.  A WHERE clause keeps a row only when its     *)
(* predicate is TRUE, so a comparison with NULL never admits a row; Python's *)
(* None != x is True.                                                        *)

SqlNe(a, b) == a # NULL /\ b # NULL /\ a # b
SqlLt(a, b) == a # NULL /\ b # NULL /\ RatLt(a, b)
PyNe(a, b) == a # b
PyLt(a, b) == RatLt(a, b)

(* Aggregates over a sequence of values; NULL inputs are ignored and an     *)
(* aggregate of no value is NULL.                                           *)
NonNull(vals) == SelectSeq(vals, LAMBDA v : v # NULL)

RECURSIVE SeqSum(_)
SeqSum(vals) == IF vals = <<>> THEN Num(0)
                ELSE RatAdd(Head(vals), SeqSum(Tail(vals)))

RECURSIVE SeqMin(_)
SeqMin(vals) == IF Len(vals) = 1 THEN Head(vals)
                ELSE LET m == SeqMin(Tail(vals))
                     IN IF RatLeq(Head(vals), m) THEN Head(vals) ELSE m

RECURSIVE SeqMax(_)
SeqMax(vals) == IF Len(vals) = 1 THEN Head(vals)
                ELSE LET m == SeqMax(Tail(vals))
                     IN IF RatLeq(m, Head(vals)) THEN Head(vals) ELSE m

SqlMin(vals) == IF NonNull(vals) = <<>> THEN NULL ELSE SeqMin(NonNull(vals))
SqlMax(vals) == IF NonNull(vals) = <<>> THEN NULL ELSE SeqMax(NonNull(vals))
SqlSum(vals) == IF NonNull(vals) = <<>> THEN NULL ELSE SeqSum(NonNull(vals))
SqlAvg(vals) == IF NonNull(vals) = <<>> THEN NULL
                ELSE RatDiv(SeqSum(NonNull(vals)), Num(Len(NonNull(vals))))

(* The rows of a set in ascending date order (ORDER BY date) *)
RECURSIVE OrderByDate(_)
OrderByDate(S) ==
    IF S = {} THEN <<>>
    ELSE LET m == CHOOSE r \in S : \A q \in S : r.date <= q.date
         IN <<m>> \o OrderByDate(S \ {m})

-----------------------------------------------------------------------------
(* The tables *)

StationPool == {
    [stn |-> "037720", wban |-> "99999", name |-> <<"L","O","N","D","O","N">>,
     country |-> "UK", lat |-> Num(51), lon |-> Num(0)],
    [stn |-> "039030", wban |-> "99999",
     name |-> <<"L","O","N","D","O","N","D","E","R","R","Y">>,
     country |-> "UK", lat |-> Num(55), lon |-> Num(-7)],
    [stn |-> "725046", wban |-> "14707", name |-> <<"L","o","n","d","o","n">>,
     country |-> "US", lat |-> Num(41), lon |-> Num(-72)],
    [stn |-> "724070", wban |-> "93730", name |-> <<"E","L","D","O","N">>,
     country |-> "US", lat |-> Num(38), lon |-> Num(-92)],
    [stn |-> "999001", wban |-> "99999", name |-> <<"D","O","N">>,
     country |-> "", lat |-> Num(47), lon |-> Num(40)] }

Directories == {D \in SUBSET StationPool : Cardinality(D) <= MaxStations}

StationIds == { <<"037720", "99999">>, <<"039030", "99999">> }

(* What one station-day can hold: temp, max, min in F, prcp in inches, wdsp *)
(* in knots.                                                               *)
Reading(t, mx, mn, p, w) ==
    [temp |-> t, max |-> mx, min |-> mn, prcp |-> p, wdsp |-> w]

ReadingPool == {
    \* every value present
    Reading(Num(32), Num(50), Num(32), Num(1), Num(10)),
    \* all but the mean temperature hold the sentinel itself
    Reading(Num(50), TempSentinel, TempSentinel, PrcpSentinel, WindSentinel),
    \* a precipitation above the threshold, NULL min and wind
    Reading(Num(212), Num(212), NULL, Num(100), NULL),
    \* the mean temperature is the sentinel, the rest is present
    Reading(TempSentinel, Num(212), Num(50), Num(1), Num(10)),
    \* NULL max and precipitation, a wind above the threshold
    Reading(Num(50), NULL, Num(32), NULL, Num(1000)) }

ObsRow(id, d, m) ==
    [stn |-> id[1], wban |-> id[2], date |-> d, temp |-> m.temp, max |-> m.max,
     min |-> m.min, prcp |-> m.prcp, wdsp |-> m.wdsp]

Days2020 == 1..DaysPerYear

(* Rows that every dataset of the model holds: another station in 2020 and *)
(* the first station in 2021.                                              *)
FixedRows == {
    ObsRow(<<"039030", "99999">>, 1,
           Reading(Num(104), Num(302), Num(14), Num(2), Num(30))),
    ObsRow(<<"037720", "99999">>, DaysPerYear + 1,
           Reading(Num(68), Num(257), Num(59), Num(3), Num(40))) }

(* One optional reading of the first station for every day of 2020 *)
Datasets ==
    { FixedRows \cup { ObsRow(<<"037720", "99999">>, d, f[d]) :
                         d \in {e \in Days2020 : f[e] # NULL} } :
      f \in [Days2020 -> ReadingPool \cup {NULL}] }

-----------------------------------------------------------------------------
(* resolve_city *)

Truthy(country_code) == country_code # {} /\ country_code # {""}

resolve_city_where(s, a) ==
    /\ Like(Upper(s.name), <<"%">> \o Upper(a.city) \o <<"%">>)
    /\ Truthy(a.country_code) => s.country \in a.country_code

(* ORDER BY name LIMIT 1: one of the rows of least name, or no row *)
resolve_city_query(a) ==
    LET hit == {s \in stations : resolve_city_where(s, a)}
        first == {s \in hit : \A q \in hit : TextLeq(s.name, q.name)}
    IN IF hit = {} THEN { <<>> } ELSE { <<s>> : s \in first }

resolve_city_return(a, rows) ==
    IF rows = <<>>
    THEN [found |-> FALSE, reason |-> "No station for that city"]
    ELSE [found |-> TRUE, stn |-> rows[1].stn, wban |-> rows[1].wban,
          name |-> rows[1].name, country |-> rows[1].country,
          lat |-> rows[1].lat, lon |-> rows[1].lon]

-----------------------------------------------------------------------------
(* range_weather_summary *)

Between(d, a) == ParseDate(a.start_date) <= d /\ d <= ParseDate(a.end_date)

range_where_nofilter(r, a) ==
    /\ r.stn = a.stn
    /\ r.wban = a.wban
    /\ Between(r.date, a)
    /\ r.temp # NULL

range_where(r, a) ==
    /\ r.stn = a.stn
    /\ r.wban = a.wban
    /\ Between(r.date, a)
    /\ SqlNe(r.temp, TempSentinel)

(* An aggregate query without GROUP BY delivers exactly one row, also when *)
(* no row passes the WHERE clause.                                         *)
range_query(a) ==
    LET rows == OrderByDate({r \in obs : range_where(r, a)})
        temps == [k \in 1..Len(rows) |-> rows[k].temp]
        rain == [k \in 1..Len(rows) |->
                    IF SqlLt(rows[k].prcp, PrcpSentinel) THEN rows[k].prcp
                    ELSE Num(0)]
        wind == [k \in 1..Len(rows) |->
                    IF SqlLt(rows[k].wdsp, WindSentinel) THEN rows[k].wdsp
                    ELSE NULL]
    IN { << [temp_min_f |-> SqlMin(temps),
             temp_max_f |-> SqlMax(temps),
             temp_mean_f |-> SqlAvg(temps),
             prcp_sum_in |-> SqlSum(rain),
             wind_mean_knots |-> SqlAvg(wind)] >> }

range_return(a, rows) ==
    IF rows = <<>>
    THEN [found |-> FALSE, reason |-> "No data in that range"]
    ELSE [found |-> TRUE, stn |-> a.stn, wban |-> a.wban,
          start_date |-> a.start_date, end_date |-> a.end_date,
          temperature |-> [min_c |-> f_to_c(rows[1].temp_min_f),
                           max_c |-> f_to_c(rows[1].temp_max_f),
                           mean_c |-> f_to_c(rows[1].temp_mean_f)],
          rainfall |-> [total_mm |-> inches_to_mm(rows[1].prcp_sum_in)],
          wind |-> [mean_kmh |-> knots_to_kmh(rows[1].wind_mean_knots)]]

-----------------------------------------------------------------------------
(* yearly_max_temp *)

yearly_where_nofilter(r, a) ==
    /\ r.stn = a.stn
    /\ r.wban = a.wban
    /\ ExtractYear(r.date) = a.year
    /\ r.max # NULL

yearly_where(r, a) ==
    /\ r.stn = a.stn
    /\ r.wban = a.wban
    /\ ExtractYear(r.date) = a.year
    /\ SqlNe(r.max, TempSentinel)

yearly_first_asc(hit) == {r \in hit : \A q \in hit : RatLeq(r.max, q.max)}

(* ORDER BY max_temp_f DESC LIMIT 1: the rows that can come first *)
yearly_first(hit) == {r \in hit : \A q \in hit : RatLeq(q.max, r.max)}

yearly_query(a) ==
    LET hit == {r \in obs : yearly_where(r, a)}
    IN IF hit = {} THEN { <<>> }
       ELSE { << [date |-> r.date, max_temp_f |-> r.max] >> :
              r \in yearly_first(hit) }

yearly_return(a, rows) ==
    IF rows = <<>>
    THEN [found |-> FALSE, reason |-> "No data for that year"]
    ELSE [found |-> TRUE, stn |-> a.stn, wban |-> a.wban, year |-> a.year,
          date |-> DateStr(rows[1].date), max_c |-> f_to_c(rows[1].max_temp_f)]

-----------------------------------------------------------------------------
(* daily_weather_series *)

MetricNames == {"temp_mean_c", "temp_max_c", "temp_min_c", "rain_mm", "wind_kmh"}

(* if not metrics: metrics = ["temp_mean_c"] *)
DefaultMetrics(metrics) == IF metrics = {} THEN {"temp_mean_c"} ELSE metrics

series_where(r, a) ==
    /\ r.stn = a.stn
    /\ r.wban = a.wban
    /\ Between(r.date, a)
    /\ SqlNe(r.temp, TempSentinel)

series_order_desc(S) ==
    LET up == OrderByDate(S)
    IN [k \in 1..Len(up) |-> up[Len(up) + 1 - k]]

series_order(S) == OrderByDate(S)

series_query(a) ==
    LET rows == series_order({r \in obs : series_where(r, a)})
    IN { [k \in 1..Len(rows) |->
             [date |-> rows[k].date, temp |-> rows[k].temp,
              max |-> rows[k].max, min |-> rows[k].min,
              prcp |-> rows[k].prcp, wdsp |-> rows[k].wdsp]] }

(* The keys the loop body sets on item for one row *)
ItemKeys(row, metrics) ==
    {"date"}
    \cup {k \in {"temp_mean_c"} : k \in metrics}
    \cup {k \in {"temp_max_c"} : k \in metrics /\ PyNe(row.max, TempSentinel)}
    \cup {k \in {"temp_min_c"} : k \in metrics /\ PyNe(row.min, TempSentinel)}
    \cup {k \in {"rain_mm"} : /\ k \in metrics
                              /\ row.prcp # NULL
                              /\ PyLt(row.prcp, PrcpSentinel)}
    \cup {k \in {"wind_kmh"} : /\ k \in metrics
                               /\ row.wdsp # NULL
                               /\ PyLt(row.wdsp, WindSentinel)}

ItemValue(row, k) ==
    CASE k = "date" -> DateStr(row.date)
      [] k = "temp_mean_c" -> f_to_c(row.temp)
      [] k = "temp_max_c" -> f_to_c(row.max)
      [] k = "temp_min_c" -> f_to_c(row.min)
      [] k = "rain_mm" -> inches_to_mm(row.prcp)
      [] k = "wind_kmh" -> knots_to_kmh(row.wdsp)

SeriesItem(row, metrics) ==
    [k \in ItemKeys(row, metrics) |-> ItemValue(row, k)]

series_return(a, data) ==
    [stn |-> a.stn, wban |-> a.wban, start_date |-> a.start_date,
     end_date |-> a.end_date, metrics |-> a.metrics, data |-> data]

-----------------------------------------------------------------------------
(* The arguments the model draws *)

CityTexts == {
    <<"l","o","n","d","o","n">>, <<"L","O","N","D","O","N">>, <<"D","o","n">>,
    <<"O","N">>, <<"Y","Y">>, <<"_">>, <<"L","%","Y">>, <<>> }

CountryCodes == { {}, {""}, {"UK"}, {"US"} }

(* The ISO texts of the days of 2020, and one text that is no calendar date *)
DateTexts == { <<2020, k>> : k \in 1..(DaysPerYear + 1) }

MetricSets == { {}, {"rain_mm"}, {"temp_max_c", "temp_min_c", "wind_kmh"},
                MetricNames \cup {"humidity"} }

FirstStation == { <<"037720", "99999">> }

NoResponse == [pending |-> TRUE]
NoArgs == [tool |-> "none"]

-----------------------------------------------------------------------------
(* Initial states *)

InitCalls ==
    /\ pc = [i \in Calls |-> "idle"]
    /\ args = [i \in Calls |-> NoArgs]
    /\ queries = [i \in Calls |-> 0]
    /\ job = [i \in Calls |-> <<>>]
    /\ series = [i \in Calls |-> <<>>]
    /\ response = [i \in Calls |-> NoResponse]

SomeDataset ==
    FixedRows \cup {
        ObsRow(<<"037720", "99999">>, 1,
               Reading(Num(32), Num(50), Num(32), Num(1), Num(10))),
        ObsRow(<<"037720", "99999">>, 2,
               Reading(Num(50), TempSentinel, TempSentinel, PrcpSentinel,
                       WindSentinel)) }

InitStations == stations \in Directories /\ obs = SomeDataset /\ InitCalls

InitObs == stations = {} /\ obs \in Datasets /\ InitCalls

InitAll == InitStations \/ InitObs

InitConc ==
    /\ stations = StationPool
    /\ obs = SomeDataset
    /\ InitCalls

-----------------------------------------------------------------------------
(* Entry of a tool: the arguments are bound; daily_weather_series replaces *)
(* an empty metrics argument by its default.                               *)

Enter(i, a) ==
    /\ pc[i] = "idle"
    /\ args' = [args EXCEPT ![i] = a]
    /\ pc' = [pc EXCEPT ![i] = "query"]
    /\ UNCHANGED <<stations, obs, queries, job, series, response>>

Enter_resolve_city(i, Cities, Codes) ==
    \E city \in Cities, country_code \in Codes :
        Enter(i, [tool |-> "resolve_city", city |-> city,
                  country_code |-> country_code])

Enter_range_weather_summary(i, Ids, Texts) ==
    \E id \in Ids, start_date \in Texts, end_date \in Texts :
        Enter(i, [tool |-> "range_weather_summary", stn |-> id[1],
                  wban |-> id[2], start_date |-> start_date,
                  end_date |-> end_date])

Enter_yearly_max_temp(i, Ids, Ys) ==
    \E id \in Ids, year \in Ys :
        Enter(i, [tool |-> "yearly_max_temp", stn |-> id[1], wban |-> id[2],
                  year |-> year])

Enter_daily_weather_series(i, Ids, Texts, Sets) ==
    \E id \in Ids, start_date \in Texts, end_date \in Texts, metrics \in Sets :
        Enter(i, [tool |-> "daily_weather_series", stn |-> id[1],
                  wban |-> id[2], start_date |-> start_date,
                  end_date |-> end_date, asked |-> metrics,
                  metrics |-> DefaultMetrics(metrics)])

-----------------------------------------------------------------------------
(* bq_client.query *)

HasDates(a) == a.tool \in {"range_weather_summary", "daily_weather_series"}

(* The dataset rejects a DATE parameter whose text is no calendar date *)
Accepted(a) == HasDates(a) => IsDate(a.start_date) /\ IsDate(a.end_date)

QueryRows(a) ==
    CASE a.tool = "resolve_city" -> resolve_city_query(a)
      [] a.tool = "range_weather_summary" -> range_query(a)
      [] a.tool = "yearly_max_temp" -> yearly_query(a)
      [] a.tool = "daily_weather_series" -> series_query(a)

(* The query is submitted and the dataset will deliver rows *)
Submit(i) ==
    /\ pc[i] = "query"
    /\ Accepted(args[i])
    /\ queries' = [queries EXCEPT ![i] = @ + 1]
    /\ \E rows \in QueryRows(args[i]) : job' = [job EXCEPT ![i] = rows]
    /\ pc' = [pc EXCEPT ![i] = "rows"]
    /\ UNCHANGED <<stations, obs, args, series, response>>

FailureResponse_partial(i) ==
    IF args[i].tool = "daily_weather_series"
    THEN series_return(args[i], series[i])
    ELSE NoResponse

(* An exception of the dataset call leaves the tool: nothing is returned *)
FailureResponse(i) == NoResponse

(* The query is submitted and the dataset call raises *)
SubmitFail(i) ==
    /\ pc[i] = "query"
    /\ queries' = [queries EXCEPT ![i] = @ + 1]
    /\ pc' = [pc EXCEPT ![i] = "failed"]
    /\ response' = [response EXCEPT ![i] = FailureResponse(i)]
    /\ UNCHANGED <<stations, obs, args, job, series>>

(* Reading the rows raises: in list(job), or in the for loop over job *)
ReadFail(i) ==
    /\ pc[i] = "rows"
    /\ pc' = [pc EXCEPT ![i] = "failed"]
    /\ response' = [response EXCEPT ![i] = FailureResponse(i)]
    /\ UNCHANGED <<stations, obs, args, queries, job, series>>

-----------------------------------------------------------------------------
(* rows = list(job) and the return of the three tools that use it *)

Return(a, rows) ==
    CASE a.tool = "resolve_city" -> resolve_city_return(a, rows)
      [] a.tool = "range_weather_summary" -> range_return(a, rows)
      [] a.tool = "yearly_max_temp" -> yearly_return(a, rows)

ListAndReturn(i) ==
    /\ pc[i] = "rows"
    /\ args[i].tool # "daily_weather_series"
    /\ response' = [response EXCEPT ![i] = Return(args[i], job[i])]
    /\ pc' = [pc EXCEPT ![i] = "done"]
    /\ UNCHANGED <<stations, obs, args, queries, job, series>>

(* One turn of the loop "for row in job" of daily_weather_series *)
SeriesAppend(i) ==
    /\ pc[i] = "rows"
    /\ args[i].tool = "daily_weather_series"
    /\ Len(series[i]) < Len(job[i])
    /\ series' = [series EXCEPT ![i] =
           Append(@, SeriesItem(job[i][Len(@) + 1], args[i].metrics))]
    /\ UNCHANGED <<stations, obs, pc, args, queries, job, response>>

(* The loop is over: daily_weather_series returns *)
SeriesReturn(i) ==
    /\ pc[i] = "rows"
    /\ args[i].tool = "daily_weather_series"
    /\ Len(series[i]) = Len(job[i])
    /\ response' = [response EXCEPT ![i] = series_return(args[i], series[i])]
    /\ pc' = [pc EXCEPT ![i] = "done"]
    /\ UNCHANGED <<stations, obs, args, queries, job, series>>

-----------------------------------------------------------------------------
(* Specifications *)

NextResolve ==
    \/ Enter_resolve_city(1, CityTexts, CountryCodes)
    \/ Submit(1)
    \/ SubmitFail(1)
    \/ ReadFail(1)
    \/ ListAndReturn(1)

NextRange ==
    \/ Enter_range_weather_summary(1, StationIds, DateTexts)
    \/ Submit(1)
    \/ SubmitFail(1)
    \/ ReadFail(1)
    \/ ListAndReturn(1)

NextYear ==
    \/ Enter_yearly_max_temp(1, StationIds, Years)
    \/ Submit(1)
    \/ SubmitFail(1)
    \/ ReadFail(1)
    \/ ListAndReturn(1)

NextSeries ==
    \/ Enter_daily_weather_series(1, FirstStation, DateTexts, MetricSets)
    \/ Submit(1)
    \/ SubmitFail(1)
    \/ ReadFail(1)
    \/ SeriesAppend(1)
    \/ SeriesReturn(1)

Next ==
    \/ Enter_resolve_city(1, CityTexts, CountryCodes)
    \/ Enter_range_weather_summary(1, StationIds, DateTexts)
    \/ Enter_yearly_max_temp(1, StationIds, Years)
    \/ Enter_daily_weather_series(1, FirstStation, DateTexts,
                                  {{}, MetricNames})
    \/ Submit(1)
    \/ SubmitFail(1)
    \/ ReadFail(1)
    \/ ListAndReturn(1)
    \/ SeriesAppend(1)
    \/ SeriesReturn(1)

NextConc ==
    \E i \in Calls :
        \/ Enter_resolve_city(i, {<<"l","o","n","d","o","n">>}, {{}})
        \/ Enter_range_weather_summary(i, FirstStation, {<<2020, 1>>})
        \/ Enter_yearly_max_temp(i, FirstStation, {2020})
        \/ Enter_daily_weather_series(i, FirstStation,
                                      {<<2020, 1>>, <<2020, 2>>}, {{}})
        \/ Submit(i)
        \/ SubmitFail(i)
        \/ ReadFail(i)
        \/ ListAndReturn(i)
        \/ SeriesAppend(i)
        \/ SeriesReturn(i)

SpecResolve == InitStations /\ [][NextResolve]_vars
SpecRange == InitObs /\ [][NextRange]_vars
SpecYear == InitObs /\ [][NextYear]_vars
SpecSeries == InitObs /\ [][NextSeries]_vars
Spec == InitAll /\ [][Next]_vars
SpecConc == InitConc /\ [][NextConc]_vars

-----------------------------------------------------------------------------
(* Vocabulary of the properties, written from the dataset's conventions     *)
(* and not from the tools' queries.                                         *)

Present(v) == v # NULL
TempValid(v) == Present(v) /\ v # Rat(99999, 10)
PrcpValid(v) == Present(v) /\ RatLt(v, Rat(9999, 100))
WindValid(v) == Present(v) /\ RatLt(v, Rat(9999, 10))

(* c is the Celsius value of f, m the millimetres of p, k the km/h of w *)
IsCelsiusOf(c, f) ==
    Present(c) /\ RatMul(c, Num(9)) = RatMul(RatSub(f, Num(32)), Num(5))
IsMmOf(m, p) == Present(m) /\ RatMul(m, Num(10)) = RatMul(p, Num(254))
IsKmhOf(k, w) == Present(k) /\ RatMul(k, Num(1000)) = RatMul(w, Num(1852))

(* Order of ISO date texts *)
TextDateLeq(s, e) == s[1] < e[1] \/ (s[1] = e[1] /\ s[2] <= e[2])
TextDateLt(s, e) == TextDateLeq(s, e) /\ s # e

(* The observation rows of the requested station inside the requested range *)
(* whose mean temperature is not missing                                    *)
Qualifying(a) ==
    {r \in obs : /\ r.stn = a.stn /\ r.wban = a.wban
                 /\ TextDateLeq(a.start_date, DateStr(r.date))
                 /\ TextDateLeq(DateStr(r.date), a.end_date)
                 /\ TempValid(r.temp)}

RECURSIVE ColumnSum(_, _)
ColumnSum(S, col) ==
    IF S = {} THEN Num(0)
    ELSE LET r == CHOOSE x \in S : TRUE
         IN RatAdd(r[col], ColumnSum(S \ {r}, col))

ColumnMean(S, col) == RatDiv(ColumnSum(S, col), Num(Cardinality(S)))

Least(S) == CHOOSE x \in S : \A y \in S : RatLeq(x, y)
Greatest(S) == CHOOSE x \in S : \A y \in S : RatLeq(y, x)

Returned(tool) == pc[1] = "done" /\ args[1].tool = tool

-----------------------------------------------------------------------------
(* C1.  range_weather_summary returns {found: false, reason} whenever no    *)
(* observation row of the station in [start_date, end_date] has a mean      *)
(* temperature that is not the sentinel.                                    *)
C1_NoQualifyingRowIsNotFound ==
    (Returned("range_weather_summary") /\ Qualifying(args[1]) = {})
        => /\ response[1].found = FALSE
           /\ "reason" \in DOMAIN response[1]

(* C2.  A missing input yields a missing output, never zero: when every     *)
(* admitted row has a precipitation of 99.99 or more, rainfall.total_mm is  *)
(* null; when every admitted row has a wind of 999.9 or more, wind.mean_kmh *)
(* is null.                                                                 *)
C2_MissingInputMissingOutput ==
    (Returned("range_weather_summary") /\ response[1].found)
        => LET Q == Qualifying(args[1])
           IN /\ (\A r \in Q : Present(r.prcp) /\ ~PrcpValid(r.prcp))
                    => response[1].rainfall.total_mm = NULL
              /\ (\A r \in Q : Present(r.wdsp) /\ ~WindValid(r.wdsp))
                    => response[1].wind.mean_kmh = NULL

(* C9.  With at least one qualifying row, range_weather_summary aggregates  *)
(* over exactly the qualifying rows: min_c, max_c and mean_c are the        *)
(* Celsius values of the least, greatest and mean temperature, total_mm is  *)
(* the millimetres of the sum of the precipitations below 99.99, and        *)
(* mean_kmh the km/h of the mean of the winds below 999.9 (null when there  *)
(* is none).                                                                *)
C9_RangeAggregates ==
    (Returned("range_weather_summary") /\ Qualifying(args[1]) # {})
        => LET Q == Qualifying(args[1])
               temps == {r.temp : r \in Q}
               wet == {r \in Q : PrcpValid(r.prcp)}
               windy == {r \in Q : WindValid(r.wdsp)}
               out == response[1]
           IN /\ out.found = TRUE
              /\ IsCelsiusOf(out.temperature.min_c, Least(temps))
              /\ IsCelsiusOf(out.temperature.max_c, Greatest(temps))
              /\ IsCelsiusOf(out.temperature.mean_c, ColumnMean(Q, "temp"))
              /\ IsMmOf(out.rainfall.total_mm, ColumnSum(wet, "prcp"))
              /\ IF windy = {} THEN out.wind.mean_kmh = NULL
                 ELSE IsKmhOf(out.wind.mean_kmh, ColumnMean(windy, "wdsp"))

(* The scenario of the specification: temperatures 32, 50 and 212 F on      *)
(* three days, the precipitation sentinel on the second day, and a summary  *)
(* with min_c = 0, max_c = 100 and a total that leaves the second day out.  *)
C9_Witness ==
    /\ Returned("range_weather_summary")
    /\ args[1].start_date = <<2020, 1>> /\ args[1].end_date = <<2020, 3>>
    /\ {<<r.date, r.temp, r.prcp>> : r \in Qualifying(args[1])}
         = { <<1, Num(32), Num(1)>>, <<2, Num(50), Rat(9999, 100)>>,
             <<3, Num(212), Num(100)>> }
    /\ response[1].temperature.min_c = Num(0)
    /\ response[1].temperature.max_c = Num(100)
    /\ response[1].rainfall.total_mm = Rat(254, 10)

-----------------------------------------------------------------------------
(* The observation row of the requested station on the day of a date text *)
RowAt(a, text) ==
    CHOOSE r \in obs : r.stn = a.stn /\ r.wban = a.wban /\ DateStr(r.date) = text

HasRowAt(a, text) ==
    \E r \in obs : r.stn = a.stn /\ r.wban = a.wban /\ DateStr(r.date) = text

(* 9999.9 F taken for a temperature and converted: (9999.9 - 32) * 5 / 9 *)
TempLeak(v) == v = Rat(99999, 10) \/ v = Rat(99679, 18)

TempFields == {"temp_mean_c", "temp_max_c", "temp_min_c"}

(* C3.  No response of any tool holds the temperature sentinel 9999.9, raw  *)
(* or converted, and no precipitation of 99.99 or more and no wind of 999.9 *)
(* or more contributes to rainfall.total_mm, to wind.mean_kmh, or to a      *)
(* rain_mm or wind_kmh field of a series entry.                             *)
C3_NoSentinelInOutput ==
    /\ (Returned("range_weather_summary") /\ response[1].found)
         => LET Q == Qualifying(args[1])
                out == response[1]
            IN /\ \A k \in {"min_c", "max_c", "mean_c"} :
                      ~TempLeak(out.temperature[k])
               /\ Present(out.rainfall.total_mm)
                    => IsMmOf(out.rainfall.total_mm,
                              ColumnSum({r \in Q : PrcpValid(r.prcp)}, "prcp"))
               /\ Present(out.wind.mean_kmh)
                    => /\ \E r \in Q : WindValid(r.wdsp)
                       /\ IsKmhOf(out.wind.mean_kmh,
                              ColumnMean({r \in Q : WindValid(r.wdsp)}, "wdsp"))
    /\ (Returned("yearly_max_temp") /\ response[1].found)
         => ~TempLeak(response[1].max_c)
    /\ Returned("daily_weather_series")
         => \A k \in 1..Len(response[1].data) :
              LET item == response[1].data[k]
              IN /\ \A f \in TempFields \cap DOMAIN item : ~TempLeak(item[f])
                 /\ "rain_mm" \in DOMAIN item
                      => /\ HasRowAt(args[1], item.date)
                         /\ PrcpValid(RowAt(args[1], item.date).prcp)
                 /\ "wind_kmh" \in DOMAIN item
                      => /\ HasRowAt(args[1], item.date)
                         /\ WindValid(RowAt(args[1], item.date).wdsp)
    /\ Returned("resolve_city")
         => \A f \in {"lat", "lon"} \cap DOMAIN response[1] :
              ~TempLeak(response[1][f])

(* yearly_max_temp has answered for a year in which a row of the station    *)
(* holds the sentinel as its max temperature                                *)
C3_Witness ==
    /\ Returned("yearly_max_temp")
    /\ response[1].found
    /\ \E r \in obs : /\ r.stn = args[1].stn /\ r.wban = args[1].wban
                      /\ DateStr(r.date)[1] = args[1].year
                      /\ r.max = Rat(99999, 10)

-----------------------------------------------------------------------------
(* A request that validation would have to reject *)
InvalidRequest(a) ==
    /\ a.tool \in {"range_weather_summary", "daily_weather_series"}
    /\ \/ ~IsDate(a.start_date)
       \/ ~IsDate(a.end_date)
       \/ TextDateLt(a.end_date, a.start_date)
       \/ (a.tool = "daily_weather_series" /\ ~(a.asked \subseteq MetricNames))

(* C4.  A request with start_date > end_date, a malformed date text or an   *)
(* unknown metric name is rejected before any dataset query is issued: no   *)
(* query is ever sent for an invalid request.                               *)
C4_InvalidRequestSendsNoQuery ==
    InvalidRequest(args[1]) => queries[1] = 0

-----------------------------------------------------------------------------
(* Whether the raw value behind a metric is present and not flagged missing *)
FieldPresent(r, m) ==
    CASE m = "temp_mean_c" -> TempValid(r.temp)
      [] m = "temp_max_c" -> TempValid(r.max)
      [] m = "temp_min_c" -> TempValid(r.min)
      [] m = "rain_mm" -> PrcpValid(r.prcp)
      [] m = "wind_kmh" -> WindValid(r.wdsp)
      [] OTHER -> FALSE

(* C5.  Every entry of the series holds 'date' plus exactly the requested   *)
(* fields whose raw value is present and not sentinel-missing: no field     *)
(* outside the requested set, and a requested field whose raw value is      *)
(* missing is absent, not present with a null value.                        *)
C5_SparseEntries ==
    Returned("daily_weather_series")
        => \A k \in 1..Len(response[1].data) :
             LET item == response[1].data[k]
             IN /\ HasRowAt(args[1], item.date)
                /\ DOMAIN item = {"date"} \cup
                     {m \in args[1].metrics :
                         FieldPresent(RowAt(args[1], item.date), m)}
                /\ \A f \in DOMAIN item : item[f] # NULL

-----------------------------------------------------------------------------
(* C6.  The data list of daily_weather_series is in strictly ascending date *)
(* order and holds exactly one entry for each date of the range that has an *)
(* observation row with a mean temperature that is not the sentinel, and no *)
(* entry for any other date.                                                *)
C6_SeriesDates ==
    Returned("daily_weather_series")
        => LET data == response[1].data
           IN /\ \A j, k \in 1..Len(data) :
                    j < k => TextDateLt(data[j].date, data[k].date)
              /\ {data[k].date : k \in 1..Len(data)}
                    = {DateStr(r.date) : r \in Qualifying(args[1])}

(* A series of at least two entries that skips a day of the range *)
C6_Witness ==
    /\ Returned("daily_weather_series")
    /\ Len(response[1].data) >= 2
    /\ \E t \in DateTexts :
          /\ TextDateLt(response[1].data[1].date, t)
          /\ TextDateLt(t, response[1].data[2].date)

-----------------------------------------------------------------------------
(* The rows of the station and year whose max temperature is not missing *)
ValidMaxRows(a) ==
    {r \in obs : /\ r.stn = a.stn /\ r.wban = a.wban
                 /\ DateStr(r.date)[1] = a.year
                 /\ TempValid(r.max)}

(* C7.  yearly_max_temp returns found: true with a date of that year whose  *)
(* max temperature is not the sentinel and is at least the max temperature  *)
(* of every other such row, with max_c its Celsius value; it returns        *)
(* {found: false, reason} exactly when the station has no row in that year  *)
(* with a max temperature that is not the sentinel.                         *)
C7_YearlyMax ==
    Returned("yearly_max_temp")
        => LET V == ValidMaxRows(args[1])
               out == response[1]
           IN /\ out.found = (V # {})
              /\ ~out.found => "reason" \in DOMAIN out
              /\ out.found =>
                   /\ out.date[1] = args[1].year
                   /\ \E r \in V : /\ DateStr(r.date) = out.date
                                   /\ \A q \in V : RatLeq(q.max, r.max)
                                   /\ IsCelsiusOf(out.max_c, r.max)

(* An answer for a year with two different valid max temperatures and a    *)
(* row whose max temperature is the sentinel                               *)
C7_Witness ==
    /\ Returned("yearly_max_temp")
    /\ response[1].found
    /\ Cardinality({r.max : r \in ValidMaxRows(args[1])}) >= 2
    /\ \E r \in obs : /\ r.stn = args[1].stn
                      /\ DateStr(r.date)[1] = args[1].year
                      /\ r.max = Rat(99999, 10)

-----------------------------------------------------------------------------
(* t occurs in s as a contiguous piece *)
Contains(s, t) ==
    \E k \in 0..(Len(s) - Len(t)) : SubSeq(s, k + 1, k + Len(t)) = t

(* A country code is given when it is neither None nor the empty text *)
Given(country_code) == country_code \notin { {}, {""} }

Candidates(a) ==
    {s \in stations : /\ Contains(Upper(s.name), Upper(a.city))
                      /\ Given(a.country_code) => s.country \in a.country_code}

(* C8.  resolve_city returns the station of least name among the stations   *)
(* whose upper-cased name contains the upper-cased city text and, when a    *)
(* country code is given, whose country equals it; it returns               *)
(* {found: false, reason} exactly when there is no such station.            *)
C8_ResolveCity ==
    Returned("resolve_city")
        => LET M == Candidates(args[1])
               out == response[1]
           IN /\ out.found = (M # {})
              /\ ~out.found => "reason" \in DOMAIN out
              /\ out.found =>
                   \E s \in M :
                      /\ \A q \in M : TextLeq(s.name, q.name)
                      /\ out.stn = s.stn /\ out.wban = s.wban
                      /\ out.name = s.name /\ out.country = s.country
                      /\ out.lat = s.lat /\ out.lon = s.lon

-----------------------------------------------------------------------------
(* C10.  Every invocation issues at most one query and never re-issues it;  *)
(* once its dataset call has failed the invocation stays failed, and no     *)
(* response object, built from the rows read so far or otherwise, is ever   *)
(* returned for it, also with several invocations in flight.                *)
C10_OneQueryNoPartialResult ==
    /\ [](\A i \in Calls :
            /\ queries[i] <= 1
            /\ pc[i] = "failed" => response[i] = NoResponse
            /\ response[i] # NoResponse => pc[i] = "done")
    /\ [][\A i \in Calls :
            /\ queries'[i] >= queries[i]
            /\ pc[i] = "failed" => pc'[i] = "failed" /\ queries'[i] = queries[i]
         ]_vars

(* Reading failed after an entry of the series had been built, while       *)
(* another invocation was between its query and its return                  *)
C10_Witness ==
    \E i, j \in Calls :
        /\ i # j
        /\ pc[i] = "failed" /\ Len(series[i]) >= 1
        /\ pc[j] = "rows" /\ queries[j] = 1

=============================================================================
